---- MODULE Spec2Model ----
(***************************************************************************)
(* State sync client of coreth (statesync/client.go): the request          *)
(* dispatch / retry loop `get`, the round-robin peer selection over        *)
(* stateSyncNodes, and the three response validators parseLeafsResponse,   *)
(* parseBlocks and parseCode.                                              *)
(*                                                                         *)
(* Go values are modelled as follows.                                      *)
(*   []byte            a sequence of small naturals; a nil slice is the    *)
(*                     empty sequence, and where the code tests `== nil`   *)
(*                     (LeafsRequest.Start) a separate flag StartNil keeps *)
(*                     nil and empty-but-non-nil apart.                    *)
(*   error             a record with field e; NoErr is the nil error.      *)
(*   wire bytes        a record [tag, body]: tag is the message type the   *)
(*                     bytes decode to ("garbage" decodes to nothing).     *)
(*   common.Hash       a natural; Keccak256Hash and BlockHash are          *)
(*                     injective encodings of the hashed content.          *)
(***************************************************************************)
EXTENDS Integers, Sequences, FiniteSets, TLC

(***************************************************************************)
(* Bounds of the model.                                                    *)
(***************************************************************************)
MaxPeers == 3
MaxAttemptsBound == 3
MaxDelayBound == 2

VARIABLES
  maxAttempts,      \* client.maxAttempts (uint8)
  maxRetryDelay,    \* client.maxRetryDelay, in nanoseconds
  stateSyncNodes,   \* client.stateSyncNodes
  nodeIdx,          \* client.nodeIdx, shared by every call
  crashed,          \* the process has panicked
  pc,               \* per caller: position inside get
  request,          \* per caller: the request of the call in progress
  attempt,          \* per caller: loop counter of get (uint8)
  err,              \* per caller: local err of get
  idx,              \* per caller: the value of c.nodeIdx read at line 293, while the
                    \* iteration lives
  nodeID,           \* per caller: local nodeID of get, while its iteration lives
  response,         \* per caller: local response of get, while its iteration lives
  ret,              \* per caller: what get returned
  sends,            \* observation: requests sent by the call in progress
  sleeps,           \* observation: sleeps of the call in progress
  lastDelay,        \* observation: duration of the call's latest sleep
  prevNode,         \* observation: peer of the call's preceding attempt
  wrote,            \* observation: index the attempt in progress wrote to nodeIdx
  interf,           \* observation: another call wrote nodeIdx since this call last
                    \* read its peer at line 294
  history,          \* observation: the latest peers selected from stateSyncNodes
  advances          \* observation: number of writes to nodeIdx, modulo the set size

vars == <<maxAttempts, maxRetryDelay, stateSyncNodes, nodeIdx, crashed, pc, request,
          attempt, err, idx, nodeID, response, ret, sends, sleeps, lastDelay,
          prevNode, wrote, interf, history, advances>>

config == <<maxAttempts, maxRetryDelay, stateSyncNodes>>

\* two callers are the fewest that can run get concurrently
Callers == {1, 2}
SeqCallers == {1}

(***************************************************************************)
(* Byte strings, hashes, errors.                                           *)
(***************************************************************************)
Uint8Mod == 256

NoErr == [e |-> "nil"]
NilVal == [kind |-> "nil"]

RECURSIVE Compare(_, _)
\* bytes.Compare: lexicographic order, -1 / 0 / 1
Compare(a, b) ==
  IF Len(a) = 0 /\ Len(b) = 0 THEN 0
  ELSE IF Len(a) = 0 THEN -1
  ELSE IF Len(b) = 0 THEN 1
  ELSE IF Head(a) < Head(b) THEN -1
  ELSE IF Head(a) > Head(b) THEN 1
  ELSE Compare(Tail(a), Tail(b))

\* bytes.Repeat([]byte{0x00}, n)
Repeat0(n) == [i \in 1..n |-> 0]

RECURSIVE Keccak256Hash(_)
\* crypto.Keccak256Hash: collision-free on the modelled byte strings
Keccak256Hash(b) ==
  IF Len(b) = 0 THEN 1 ELSE 3 * Keccak256Hash(SubSeq(b, 1, Len(b) - 1)) + b[Len(b)] + 1

\* ids.ShortID of the i-th configured node
PeerID(i) == 10 + i
AllPeers == {PeerID(i) : i \in 1..MaxPeers}
ZeroID == 0

TransportErrs == {[e |-> "timeout"], [e |-> "refused"]}

(***************************************************************************)
(* Requests (message.LeafsRequest, message.BlockRequest,                   *)
(* message.CodeRequest) and the codec.                                     *)
(***************************************************************************)
MaxLeaves == 2
MaxProof == 1
MaxLimit == 2

KeySpace == {<<0>>, <<1>>}
ValSpace == {<<5>>, <<6>>}
ProofKeySpace == {<<7>>}
ProofValSpace == {<<7>>, <<8>>}

SeqsUpTo(S, n) == UNION {[1..k -> S] : k \in 0..n}

\* codec.Unmarshal(data, &v): succeeds when the bytes are an encoding of v's type
Unmarshal(data, tag) ==
  IF data.tag = tag THEN [ok |-> TRUE, v |-> data.body]
  ELSE [ok |-> FALSE, v |-> NilVal]

(***************************************************************************)
(* parseCode                                                               *)
(***************************************************************************)
\* the content hash is not compared with the requested one
parseCodeHashUnchecked(req, data) ==
  LET dec == Unmarshal(data, "code") IN
  IF ~dec.ok THEN [val |-> NilVal, err |-> [e |-> "codec"]]
  ELSE IF Len(dec.v.Data) = 0 THEN [val |-> NilVal, err |-> [e |-> "errEmptyResponse"]]
  ELSE [val |-> [kind |-> "code", Data |-> dec.v.Data], err |-> NoErr]

\* lines 243-259
parseCode(req, data) ==
  LET dec == Unmarshal(data, "code") IN
  IF ~dec.ok THEN [val |-> NilVal, err |-> [e |-> "codec"]]
  ELSE IF Len(dec.v.Data) = 0 THEN [val |-> NilVal, err |-> [e |-> "errEmptyResponse"]]
  ELSE LET hash == Keccak256Hash(dec.v.Data)
           expected == req.Hash IN
       IF hash # expected
         THEN [val |-> NilVal,
               err |-> [e |-> "errHashMismatch", got |-> hash, expected |-> expected]]
         ELSE [val |-> [kind |-> "code", Data |-> dec.v.Data], err |-> NoErr]

(***************************************************************************)
(* parseBlocks                                                             *)
(***************************************************************************)
Pair(x, y) == ((x + y) * (x + y + 1)) \div 2 + y

\* types.Block.Hash(): a collision-free digest of the block's content
BlockHash(b) == Pair(Pair(b.num, b.extra), b.parent) + 1
ParentHash(b) == b.parent

\* rlp.DecodeBytes(blkBytes, block)
RlpDecode(blkBytes) ==
  IF blkBytes.rlp THEN [ok |-> TRUE, block |-> blkBytes.block]
  ELSE [ok |-> FALSE, block |-> NilVal]

RECURSIVE decodeBlocksTipOnly(_, _, _, _)
\* only the first block's hash is compared, with the requested hash
decodeBlocksTipOnly(raw, i, hash, blocks) ==
  IF i > Len(raw) THEN [val |-> [kind |-> "blocks", Blocks |-> blocks], err |-> NoErr]
  ELSE LET dec == RlpDecode(raw[i]) IN
       IF ~dec.ok THEN [val |-> NilVal, err |-> [e |-> "errUnmarshalResponse"]]
       ELSE IF i = 1 /\ BlockHash(dec.block) # hash
         THEN [val |-> NilVal,
               err |-> [e |-> "errHashMismatch", got |-> BlockHash(dec.block),
                        expected |-> hash]]
         ELSE decodeBlocksTipOnly(raw, i + 1, ParentHash(dec.block),
                                  Append(blocks, dec.block))

RECURSIVE decodeBlocks(_, _, _, _)
\* the loop of lines 210-222: i is the 1-based position, hash the expected hash
decodeBlocks(raw, i, hash, blocks) ==
  IF i > Len(raw) THEN [val |-> [kind |-> "blocks", Blocks |-> blocks], err |-> NoErr]
  ELSE LET dec == RlpDecode(raw[i]) IN
       IF ~dec.ok THEN [val |-> NilVal, err |-> [e |-> "errUnmarshalResponse"]]
       ELSE IF BlockHash(dec.block) # hash
         THEN [val |-> NilVal,
               err |-> [e |-> "errHashMismatch", got |-> BlockHash(dec.block),
                        expected |-> hash]]
         ELSE decodeBlocks(raw, i + 1, ParentHash(dec.block), Append(blocks, dec.block))

\* the requested block is not counted among the parents
tooManyBlocksBesidesTip(n, numParentsRequested) == n > numParentsRequested + 1

\* line 202
tooManyBlocks(n, numParentsRequested) == n > numParentsRequested

parseBlocks(req, data) ==
  LET dec == Unmarshal(data, "blocks") IN
  IF ~dec.ok THEN [val |-> NilVal, err |-> [e |-> "errUnmarshalResponse"]]
  ELSE IF Len(dec.v.Blocks) = 0 THEN [val |-> NilVal, err |-> [e |-> "errEmptyResponse"]]
  ELSE IF tooManyBlocks(Len(dec.v.Blocks), req.Parents)
    THEN [val |-> NilVal, err |-> [e |-> "errTooManyBlocks"]]
  ELSE decodeBlocks(dec.v.Blocks, 1, req.Hash, <<>>)

(***************************************************************************)
(* parseLeafsResponse.  trie.VerifyRangeProof and memorydb are packages of *)
(* the repository whose code is not part of the sources at hand: they are  *)
(* modelled from the specification (section 4.3, steps 4 and 7) and from   *)
(* the comments at the call site (lines 131-132 and 158-160).              *)
(***************************************************************************)
Roots == {1}

\* the leaves of the trie with the given root hash, as <<key, value>> pairs
Trie(root) ==
  IF root = 1 THEN {<< <<0>>, <<5>> >>, << <<1>>, <<6>> >>}
  ELSE {}

TrieKeys(root) == {l[1] : l \in Trie(root)}

NilProof == [nil |-> TRUE, db |-> {}]

\* memorydb.New() followed by Put of every proof key and value, in order
RECURSIVE PutAll(_, _, _, _)
PutAll(db, keys, vals, i) ==
  IF i > Len(keys) THEN db
  ELSE PutAll({x \in db : x[1] # keys[i]} \cup {<<keys[i], vals[i]>>}, keys, vals, i + 1)

\* the proof nodes held by the store are those of the trie
ValidProof(db) == << <<7>>, <<7>> >> \in db

InRange(k, firstKey, lastKey) == Compare(firstKey, k) <= 0 /\ Compare(k, lastKey) <= 0

VerifyRangeProof(root, firstKey, lastKey, keys, vals, proof) ==
  LET bad == [more |-> FALSE, ok |-> FALSE]
      given == {keys[i] : i \in 1..Len(keys)} IN
  IF Len(keys) # Len(vals) THEN bad
  ELSE IF \E i \in 1..(Len(keys) - 1) : Compare(keys[i], keys[i + 1]) >= 0 THEN bad
  ELSE IF \E i \in 1..Len(keys) : <<keys[i], vals[i]>> \notin Trie(root) THEN bad
  ELSE IF proof.nil
    THEN IF given = TrieKeys(root) THEN [more |-> FALSE, ok |-> TRUE] ELSE bad
  ELSE IF ~ValidProof(proof.db) THEN bad
  ELSE IF \E k \in TrieKeys(root) : InRange(k, firstKey, lastKey) /\ k \notin given THEN bad
  ELSE [more |-> \E k \in TrieKeys(root) : Compare(k, lastKey) > 0, ok |-> TRUE]

\* lines 146-156: the bounds handed to the verifier
firstKeyOf(req) == IF req.StartNil THEN Repeat0(Len(req.End)) ELSE req.Start
lastKeyOf(req, resp) ==
  IF Len(resp.Keys) > 0 THEN resp.Keys[Len(resp.Keys)] ELSE req.End

\* lines 130-144: the proof database, nil when the response has no proof keys
proofOf(resp) ==
  IF Len(resp.ProofKeys) > 0
    THEN [nil |-> FALSE, db |-> PutAll({}, resp.ProofKeys, resp.ProofVals, 1)]
    ELSE NilProof

\* a bound that is one too lax
exceedsLimitOffByOne(resp, req) ==
  Len(resp.Keys) > req.Limit + 1 \/ Len(resp.Vals) > req.Limit + 1

\* line 121
exceedsLimit(resp, req) == Len(resp.Keys) > req.Limit \/ Len(resp.Vals) > req.Limit

\* the proof is looked for among the proof values instead of the proof keys
emptyWithoutProofVals(resp) == Len(resp.Keys) = 0 /\ Len(resp.ProofVals) = 0

\* line 126
emptyWithoutProof(resp) == Len(resp.Keys) = 0 /\ Len(resp.ProofKeys) = 0

\* the verifier's error is dropped
rangeProofErrorIgnored(v) == FALSE

\* line 162
rangeProofFailed(v) == ~v.ok

parseLeafsResponse(req, data) ==
  LET dec == Unmarshal(data, "leafs")
      resp == dec.v IN
  IF ~dec.ok THEN [val |-> NilVal, err |-> [e |-> "codec"]]
  ELSE IF exceedsLimit(resp, req)
    THEN [val |-> NilVal, err |-> [e |-> "errTooManyLeaves"]]
  ELSE IF emptyWithoutProof(resp)
    THEN [val |-> NilVal, err |-> [e |-> "empty key response must include merkle proof"]]
  ELSE IF Len(resp.ProofKeys) > 0 /\ Len(resp.ProofKeys) # Len(resp.ProofVals)
    THEN [val |-> NilVal, err |-> [e |-> "mismatch in length of proof keys/vals"]]
  ELSE LET v == VerifyRangeProof(req.Root, firstKeyOf(req), lastKeyOf(req, resp),
                                 resp.Keys, resp.Vals, proofOf(resp)) IN
       IF rangeProofFailed(v) THEN [val |-> NilVal, err |-> [e |-> "errInvalidRangeProof"]]
       ELSE [val |-> [kind |-> "leafs", Keys |-> resp.Keys, Vals |-> resp.Vals,
                      ProofKeys |-> resp.ProofKeys, ProofVals |-> resp.ProofVals,
                      More |-> v.more],
             err |-> NoErr]

\* the parseResponseFn each facade method hands to get
parseFn(req, data) ==
  CASE req.kind = "leafs" -> parseLeafsResponse(req, data)
    [] req.kind = "blocks" -> parseBlocks(req, data)
    [] req.kind = "code" -> parseCode(req, data)

(***************************************************************************)
(* The requests callers issue and the bytes peers answer with.             *)
(***************************************************************************)
StartBounds == {[nil |-> TRUE, b |-> <<>>], [nil |-> FALSE, b |-> <<>>]}
                 \cup {[nil |-> FALSE, b |-> k] : k \in KeySpace}
EndBounds == {<<>>} \cup KeySpace

LeafsRequests ==
  {[kind |-> "leafs", Root |-> r, Start |-> s.b, StartNil |-> s.nil, End |-> e, Limit |-> l] :
     r \in Roots, s \in StartBounds, e \in EndBounds, l \in 0..MaxLimit}

\* requests for the leaves under the root of the empty trie
EmptyTrieRequests ==
  {[kind |-> "leafs", Root |-> 0, Start |-> <<>>, StartNil |-> TRUE, End |-> e,
    Limit |-> MaxLimit] : e \in {<<>>, <<1>>}}

\* an honest chain 1 <- 2 <- 3 and the blocks a peer can forge from it
Block1 == [num |-> 1, parent |-> 0, extra |-> 0]
Block2 == [num |-> 2, parent |-> BlockHash(Block1), extra |-> 0]
Block3 == [num |-> 3, parent |-> BlockHash(Block2), extra |-> 0]
Forged3 == [num |-> 3, parent |-> BlockHash(Block2), extra |-> 1]
RawBlocks == {[rlp |-> TRUE, block |-> b] : b \in {Block1, Block2, Block3, Forged3}}
               \cup {[rlp |-> FALSE, block |-> NilVal]}

BlockRequests ==
  {[kind |-> "blocks", Hash |-> BlockHash(Block3), Height |-> 3, Parents |-> n] : n \in 0..2}

CodeBytes == SeqsUpTo({0, 1}, 1)
CodeRequests == {[kind |-> "code", Hash |-> Keccak256Hash(<<0>>)]}

Garbage == [tag |-> "garbage", body |-> NilVal]
NoResponse == [tag |-> "nil", body |-> NilVal]

CodeWire == {[tag |-> "code", body |-> [Data |-> d]] : d \in CodeBytes}
BlockWire == {[tag |-> "blocks", body |-> [Blocks |-> bs]] : bs \in SeqsUpTo(RawBlocks, 2)}
LeafWire ==
  {[tag |-> "leafs", body |-> [Keys |-> k, Vals |-> v, ProofKeys |-> pk, ProofVals |-> pv]] :
     k \in SeqsUpTo(KeySpace, MaxLeaves), v \in SeqsUpTo(ValSpace, MaxLeaves),
     pk \in SeqsUpTo(ProofKeySpace, MaxProof), pv \in SeqsUpTo(ProofValSpace, MaxProof)}

(***************************************************************************)
(* NewClient and the callers' initial state.                               *)
(***************************************************************************)
NodeLists == {[i \in 1..n |-> PeerID(i)] : n \in 0..MaxPeers}

InitCallers ==
  /\ nodeIdx = 0
  /\ crashed = FALSE
  /\ pc = [p \in Callers |-> "idle"]
  /\ request = [p \in Callers |-> NilVal]
  /\ attempt = [p \in Callers |-> 0]
  /\ err = [p \in Callers |-> NoErr]
  /\ idx = [p \in Callers |-> 0]
  /\ nodeID = [p \in Callers |-> ZeroID]
  /\ response = [p \in Callers |-> NoResponse]
  /\ ret = [p \in Callers |-> [val |-> NilVal, err |-> NoErr]]
  /\ sends = [p \in Callers |-> 0]
  /\ sleeps = [p \in Callers |-> 0]
  /\ lastDelay = [p \in Callers |-> 0]
  /\ prevNode = [p \in Callers |-> ZeroID]
  /\ wrote = [p \in Callers |-> -1]
  /\ interf = [p \in Callers |-> FALSE]
  /\ history = <<>>
  /\ advances = 0

Init ==
  /\ maxAttempts \in 0..MaxAttemptsBound
  /\ maxRetryDelay \in 0..MaxDelayBound
  /\ stateSyncNodes \in NodeLists
  /\ InitCallers

(***************************************************************************)
(* get, one step at a time.                                                *)
(***************************************************************************)
\* a facade method is entered with a request
Call(p, R) ==
  /\ ~crashed
  /\ pc[p] = "idle"
  /\ \E r \in R : request' = [request EXCEPT ![p] = r]
  /\ pc' = [pc EXCEPT ![p] = "encode"]
  /\ err' = [err EXCEPT ![p] = NoErr]
  /\ ret' = [ret EXCEPT ![p] = [val |-> NilVal, err |-> NoErr]]
  /\ interf' = [interf EXCEPT ![p] = FALSE]
  /\ UNCHANGED <<config, nodeIdx, crashed, attempt, idx, nodeID, response, sends, sleeps,
                 lastDelay, prevNode, wrote, history, advances>>

MarshalErr == [e |-> "marshal"]

\* the encoding error is not returned: get goes on into the retry loop
EncodeFailIgnored(p) ==
  /\ ~crashed
  /\ pc[p] = "encode"
  /\ err' = [err EXCEPT ![p] = MarshalErr]
  /\ attempt' = [attempt EXCEPT ![p] = 0]
  /\ pc' = [pc EXCEPT ![p] = "loop"]
  /\ UNCHANGED <<config, nodeIdx, crashed, request, idx, nodeID, response, ret, sends,
                 sleeps, lastDelay, prevNode, wrote, interf, history, advances>>

\* lines 268-271: message.RequestToBytes fails
EncodeFail(p) ==
  /\ ~crashed
  /\ pc[p] = "encode"
  /\ err' = [err EXCEPT ![p] = MarshalErr]
  /\ ret' = [ret EXCEPT ![p] = [val |-> NilVal, err |-> MarshalErr]]
  /\ pc' = [pc EXCEPT ![p] = "done"]
  /\ UNCHANGED <<config, nodeIdx, crashed, request, attempt, idx, nodeID, response, sends,
                 sleeps, lastDelay, prevNode, wrote, interf, history, advances>>

\* lines 268-275: the request is encoded and the loop starts with attempt 0
EncodeOk(p) ==
  /\ ~crashed
  /\ pc[p] = "encode"
  /\ attempt' = [attempt EXCEPT ![p] = 0]
  /\ pc' = [pc EXCEPT ![p] = "loop"]
  /\ UNCHANGED <<config, nodeIdx, crashed, request, err, idx, nodeID, response, ret, sends,
                 sleeps, lastDelay, prevNode, wrote, interf, history, advances>>

\* line 275 with attempt = 0: no sleep before the first attempt
FirstAttempt(p) ==
  /\ ~crashed
  /\ pc[p] = "loop"
  /\ attempt[p] < maxAttempts
  /\ attempt[p] = 0
  /\ pc' = [pc EXCEPT ![p] = "select"]
  /\ UNCHANGED <<config, nodeIdx, crashed, request, attempt, err, idx, nodeID, response,
                 ret, sends, sleeps, lastDelay, prevNode, wrote, interf, history, advances>>

\* lines 279-282: rand.Int63n(n) returns a value in [0, n) for n > 0
Sleep(p) ==
  /\ ~crashed
  /\ pc[p] = "loop"
  /\ attempt[p] < maxAttempts
  /\ attempt[p] > 0
  /\ maxRetryDelay > 0
  /\ \E d \in 0..(maxRetryDelay - 1) : lastDelay' = [lastDelay EXCEPT ![p] = d]
  /\ sleeps' = [sleeps EXCEPT ![p] = @ + 1]
  /\ pc' = [pc EXCEPT ![p] = "select"]
  /\ UNCHANGED <<config, nodeIdx, crashed, request, attempt, err, idx, nodeID, response,
                 ret, sends, prevNode, wrote, interf, history, advances>>

\* line 280: rand.Int63n panics when its argument is not positive
SleepPanic(p) ==
  /\ ~crashed
  /\ pc[p] = "loop"
  /\ attempt[p] < maxAttempts
  /\ attempt[p] > 0
  /\ maxRetryDelay <= 0
  /\ crashed' = TRUE
  /\ pc' = [pc EXCEPT ![p] = "panic"]
  /\ UNCHANGED <<config, nodeIdx, request, attempt, err, idx, nodeID, response, ret, sends,
                 sleeps, lastDelay, prevNode, wrote, interf, history, advances>>

\* the loop assigns a variable err of its own: the one wrapped at the end is still
\* the nil error left by the encoding
ExhaustedErrShadowed(p) ==
  /\ ~crashed
  /\ pc[p] = "loop"
  /\ ~(attempt[p] < maxAttempts)
  /\ ret' = [ret EXCEPT ![p] =
               [val |-> NilVal,
                err |-> [e |-> "errExceededRetryLimit", attempts |-> maxAttempts,
                         wrapped |-> NoErr]]]
  /\ pc' = [pc EXCEPT ![p] = "done"]
  /\ UNCHANGED <<config, nodeIdx, crashed, request, attempt, err, idx, nodeID, response,
                 sends, sleeps, lastDelay, prevNode, wrote, interf, history, advances>>

\* lines 275 and 313: the loop condition fails
Exhausted(p) ==
  /\ ~crashed
  /\ pc[p] = "loop"
  /\ ~(attempt[p] < maxAttempts)
  /\ ret' = [ret EXCEPT ![p] =
               [val |-> NilVal,
                err |-> [e |-> "errExceededRetryLimit", attempts |-> maxAttempts,
                         wrapped |-> err[p]]]]
  /\ pc' = [pc EXCEPT ![p] = "done"]
  /\ UNCHANGED <<config, nodeIdx, crashed, request, attempt, err, idx, nodeID, response,
                 sends, sleeps, lastDelay, prevNode, wrote, interf, history, advances>>

\* line 288: no fixed peer set, the transport picks the peer
SelectAny(p) ==
  /\ ~crashed
  /\ pc[p] = "select"
  /\ Len(stateSyncNodes) = 0
  /\ pc' = [pc EXCEPT ![p] = "send"]
  /\ UNCHANGED <<config, nodeIdx, crashed, request, attempt, err, idx, nodeID, response,
                 ret, sends, sleeps, lastDelay, prevNode, wrote, interf, history, advances>>

\* the cursor is advanced and never wrapped
nextIdxNoWrap(i, n) == i + 1

\* the cursor is taken modulo the set size but not advanced
nextIdxStuck(i, n) == i % n

\* the cursor is advanced by two
nextIdxSkips(i, n) == (i + 2) % n

\* line 293: (c.nodeIdx + 1) % len(c.stateSyncNodes)
nextIdx(i, n) == (i + 1) % n

\* line 293, right-hand side: c.nodeIdx is read, with no lock held
ReadIdx(p) ==
  /\ ~crashed
  /\ pc[p] = "select"
  /\ Len(stateSyncNodes) # 0
  /\ idx' = [idx EXCEPT ![p] = nodeIdx]
  /\ pc' = [pc EXCEPT ![p] = "write"]
  /\ UNCHANGED <<config, nodeIdx, crashed, request, attempt, err, nodeID, response, ret,
                 sends, sleeps, lastDelay, prevNode, wrote, interf, history, advances>>

\* line 293, assignment: c.nodeIdx = (value read + 1) % len(c.stateSyncNodes)
WriteIdx(p) ==
  /\ ~crashed
  /\ pc[p] = "write"
  /\ nodeIdx' = nextIdx(idx[p], Len(stateSyncNodes))
  /\ wrote' = [wrote EXCEPT ![p] = nextIdx(idx[p], Len(stateSyncNodes))]
  /\ advances' = (advances + 1) % Len(stateSyncNodes)
  /\ interf' = [q \in Callers |-> IF q # p /\ pc[q] # "idle" THEN TRUE ELSE interf[q]]
  /\ pc' = [pc EXCEPT ![p] = "index"]
  /\ UNCHANGED <<config, crashed, request, attempt, err, idx, nodeID, response, ret, sends,
                 sleeps, lastDelay, prevNode, history>>

\* line 294: nodeID = c.stateSyncNodes[c.nodeIdx], c.nodeIdx read again
\* (H is the number of selected peers the observation `history` keeps)
LoadNode(p, H) ==
  /\ ~crashed
  /\ pc[p] = "index"
  /\ nodeID' = [nodeID EXCEPT ![p] = stateSyncNodes[nodeIdx + 1]]
  /\ history' = LET h == Append(history, stateSyncNodes[nodeIdx + 1]) IN
                IF Len(h) > H THEN SubSeq(h, Len(h) - H + 1, Len(h)) ELSE h
  /\ interf' = [interf EXCEPT ![p] = FALSE]
  /\ pc' = [pc EXCEPT ![p] = "send"]
  /\ UNCHANGED <<config, nodeIdx, crashed, request, attempt, err, idx, response, ret, sends,
                 sleeps, lastDelay, prevNode, wrote, advances>>

\* the peer the transport reports: the one asked, or any for RequestAny
Answering(p) == IF Len(stateSyncNodes) = 0 THEN AllPeers ELSE {nodeID[p]}

\* lines 289/296 and 299-301: the transport returns an error; `continue` ends the
\* iteration and with it the locals response and nodeID
RequestError(p) ==
  /\ ~crashed
  /\ pc[p] = "send"
  /\ \E e \in TransportErrs : err' = [err EXCEPT ![p] = e]
  /\ \E n \in Answering(p) : prevNode' = [prevNode EXCEPT ![p] = n]
  /\ nodeID' = [nodeID EXCEPT ![p] = ZeroID]
  /\ idx' = [idx EXCEPT ![p] = 0]
  /\ wrote' = [wrote EXCEPT ![p] = -1]
  /\ sends' = [sends EXCEPT ![p] = @ + 1]
  /\ attempt' = [attempt EXCEPT ![p] = (@ + 1) % Uint8Mod]
  /\ pc' = [pc EXCEPT ![p] = "loop"]
  /\ UNCHANGED <<config, nodeIdx, crashed, request, response, ret, sleeps, lastDelay,
                 interf, history, advances>>

\* lines 303-307: the validator rejects the payload; `continue` ends the iteration
\* and with it the locals response and nodeID
ResponseRejected(p, W) ==
  /\ ~crashed
  /\ pc[p] = "send"
  /\ \E d \in W :
       /\ parseFn(request[p], d).err # NoErr
       /\ err' = [err EXCEPT ![p] = parseFn(request[p], d).err]
  /\ response' = [response EXCEPT ![p] = NoResponse]
  /\ \E n \in Answering(p) : prevNode' = [prevNode EXCEPT ![p] = n]
  /\ nodeID' = [nodeID EXCEPT ![p] = ZeroID]
  /\ idx' = [idx EXCEPT ![p] = 0]
  /\ wrote' = [wrote EXCEPT ![p] = -1]
  /\ sends' = [sends EXCEPT ![p] = @ + 1]
  /\ attempt' = [attempt EXCEPT ![p] = (@ + 1) % Uint8Mod]
  /\ pc' = [pc EXCEPT ![p] = "loop"]
  /\ UNCHANGED <<config, nodeIdx, crashed, request, ret, sleeps, lastDelay, interf,
                 history, advances>>

\* the validator's error is not looked at: whatever it returned is handed back
AcceptedUnchecked(p, W) ==
  /\ ~crashed
  /\ pc[p] = "send"
  /\ \E d \in W :
       /\ response' = [response EXCEPT ![p] = d]
       /\ err' = [err EXCEPT ![p] = NoErr]
       /\ ret' = [ret EXCEPT ![p] = [val |-> parseFn(request[p], d).val, err |-> NoErr]]
  /\ \E n \in Answering(p) : nodeID' = [nodeID EXCEPT ![p] = n]
  /\ sends' = [sends EXCEPT ![p] = @ + 1]
  /\ pc' = [pc EXCEPT ![p] = "done"]
  /\ UNCHANGED <<config, nodeIdx, crashed, request, attempt, idx, sleeps, lastDelay,
                 prevNode, wrote, interf, history, advances>>

\* the validated result is kept but the loop goes on to the next attempt
AcceptedContinues(p, W) ==
  /\ ~crashed
  /\ pc[p] = "send"
  /\ \E d \in W :
       /\ parseFn(request[p], d).err = NoErr
       /\ response' = [response EXCEPT ![p] = d]
       /\ err' = [err EXCEPT ![p] = NoErr]
       /\ ret' = [ret EXCEPT ![p] = [val |-> parseFn(request[p], d).val, err |-> NoErr]]
  /\ \E n \in Answering(p) : prevNode' = [prevNode EXCEPT ![p] = n]
  /\ nodeID' = [nodeID EXCEPT ![p] = ZeroID]
  /\ idx' = [idx EXCEPT ![p] = 0]
  /\ wrote' = [wrote EXCEPT ![p] = -1]
  /\ sends' = [sends EXCEPT ![p] = @ + 1]
  /\ attempt' = [attempt EXCEPT ![p] = (@ + 1) % Uint8Mod]
  /\ pc' = [pc EXCEPT ![p] = "loop"]
  /\ UNCHANGED <<config, nodeIdx, crashed, request, sleeps, lastDelay, interf, history,
                 advances>>

\* lines 303 and 308: the validator accepts the payload
ResponseAccepted(p, W) ==
  /\ ~crashed
  /\ pc[p] = "send"
  /\ \E d \in W :
       /\ parseFn(request[p], d).err = NoErr
       /\ response' = [response EXCEPT ![p] = d]
       /\ err' = [err EXCEPT ![p] = NoErr]
       /\ ret' = [ret EXCEPT ![p] = [val |-> parseFn(request[p], d).val, err |-> NoErr]]
  /\ \E n \in Answering(p) : nodeID' = [nodeID EXCEPT ![p] = n]
  /\ sends' = [sends EXCEPT ![p] = @ + 1]
  /\ pc' = [pc EXCEPT ![p] = "done"]
  /\ UNCHANGED <<config, nodeIdx, crashed, request, attempt, idx, sleeps, lastDelay,
                 prevNode, wrote, interf, history, advances>>

\* the facade method returns to its caller; the call's locals die
Return(p) ==
  /\ ~crashed
  /\ pc[p] = "done"
  /\ pc' = [pc EXCEPT ![p] = "idle"]
  /\ request' = [request EXCEPT ![p] = NilVal]
  /\ attempt' = [attempt EXCEPT ![p] = 0]
  /\ err' = [err EXCEPT ![p] = NoErr]
  /\ idx' = [idx EXCEPT ![p] = 0]
  /\ nodeID' = [nodeID EXCEPT ![p] = ZeroID]
  /\ response' = [response EXCEPT ![p] = NoResponse]
  /\ ret' = [ret EXCEPT ![p] = [val |-> NilVal, err |-> NoErr]]
  /\ sends' = [sends EXCEPT ![p] = 0]
  /\ sleeps' = [sleeps EXCEPT ![p] = 0]
  /\ lastDelay' = [lastDelay EXCEPT ![p] = 0]
  /\ prevNode' = [prevNode EXCEPT ![p] = ZeroID]
  /\ wrote' = [wrote EXCEPT ![p] = -1]
  /\ interf' = [interf EXCEPT ![p] = FALSE]
  /\ UNCHANGED <<config, nodeIdx, crashed, history, advances>>

(***************************************************************************)
(* What the facade methods GetLeafs, GetBlocks and GetCode hand back.      *)
(***************************************************************************)
Facade(req, r) ==
  IF r.err # NoErr
    THEN CASE req.kind = "leafs" -> [val |-> NilVal, err |-> r.err]
           [] req.kind = "blocks" ->
                [val |-> NilVal, err |-> [e |-> "could not get blocks", wrapped |-> r.err]]
           [] req.kind = "code" ->
                [val |-> NilVal, err |-> [e |-> "could not get code", wrapped |-> r.err]]
    ELSE CASE req.kind = "leafs" -> [val |-> r.val, err |-> NoErr]
           [] req.kind = "blocks" -> [val |-> r.val.Blocks, err |-> NoErr]
           [] req.kind = "code" -> [val |-> r.val.Data, err |-> NoErr]

(***************************************************************************)
(* Specifications.                                                         *)
(***************************************************************************)
Step(p, R, W, H) ==
  \/ Call(p, R)
  \/ EncodeFail(p)
  \/ EncodeOk(p)
  \/ FirstAttempt(p)
  \/ Sleep(p)
  \/ SleepPanic(p)
  \/ Exhausted(p)
  \/ SelectAny(p)
  \/ ReadIdx(p)
  \/ WriteIdx(p)
  \/ LoadNode(p, H)
  \/ RequestError(p)
  \/ ResponseRejected(p, W)
  \/ ResponseAccepted(p, W)
  \/ Return(p)

\* one caller, calls of the three kinds one after the other
EngineRequests ==
  CodeRequests \cup {r \in BlockRequests : r.Parents = 2}
    \cup {r \in LeafsRequests : r.Root = 1 /\ r.StartNil /\ r.End = <<1>> /\ r.Limit = MaxLimit}
EngineWire ==
  {Garbage} \cup CodeWire
    \cup {w \in BlockWire : Len(w.body.Blocks) = 2}
    \cup {[tag |-> "leafs",
           body |-> [Keys |-> k, Vals |-> v, ProofKeys |-> pk, ProofVals |-> pk]] :
            k \in SeqsUpTo(KeySpace, 1), v \in SeqsUpTo(ValSpace, 1),
            pk \in SeqsUpTo(ProofKeySpace, 1)}

Next == \E p \in SeqCallers : Step(p, EngineRequests, EngineWire, MaxPeers + 1)
Spec == Init /\ [][Next]_vars

\* several callers at once on one client, each fetching code
ConcWire == {Garbage, [tag |-> "code", body |-> [Data |-> <<0>>]]}

InitConc ==
  /\ maxAttempts \in {0, 2}
  /\ maxRetryDelay \in {0, 1}
  /\ stateSyncNodes \in NodeLists
  /\ InitCallers

NextConc == \E p \in Callers : Step(p, CodeRequests, ConcWire, 0)
SpecConc == InitConc /\ [][NextConc]_vars

\* one caller fetching leaves, peers answering with any leafs response
InitLeafs ==
  /\ maxAttempts = 2
  /\ \E c \in {<<0, <<>> >>, <<1, <<PeerID(1)>> >>} :
       maxRetryDelay = c[1] /\ stateSyncNodes = c[2]
  /\ InitCallers

NextLeafs ==
  \E p \in SeqCallers :
    Step(p, LeafsRequests \cup EmptyTrieRequests, LeafWire \cup {Garbage}, 0)
SpecLeafs == InitLeafs /\ [][NextLeafs]_vars

\* one caller fetching blocks, peers answering with any sequence of blocks
InitBlocks ==
  /\ maxAttempts = 2
  /\ \E c \in {<<0, <<>> >>, <<1, <<PeerID(1)>> >>} :
       maxRetryDelay = c[1] /\ stateSyncNodes = c[2]
  /\ InitCallers

NextBlocks == \E p \in SeqCallers : Step(p, BlockRequests, BlockWire \cup {Garbage}, 0)
SpecBlocks == InitBlocks /\ [][NextBlocks]_vars

(***************************************************************************)
(* Properties of the retry loop, one caller (Spec).                        *)
(***************************************************************************)
Returned(p) == pc[p] = "done"
Succeeded(p) == Returned(p) /\ ret[p].err = NoErr
FixedSet == Len(stateSyncNodes) > 0

\* C1: a value get returns as success is what the call's validator, applied to the
\* call's own request and to the payload received in the call's last attempt, gave
\* without error; the facade hands it on as a success too.  A payload the validator
\* rejects is never behind a success.
C1_ReturnsValidatedPayload ==
  \A p \in Callers :
    Succeeded(p) =>
      /\ response[p] # NoResponse
      /\ parseFn(request[p], response[p]) = [val |-> ret[p].val, err |-> NoErr]
      /\ ret[p].val # NilVal
      /\ Facade(request[p], ret[p]).err = NoErr

\* a call succeeds on a payload after an earlier attempt of the same call failed
C1_Witness ==
  \E p \in Callers : Succeeded(p) /\ sends[p] >= 2 /\ request[p].kind = "leafs"

\* C2: a call whose request encoded and whose attempts all failed ends by returning
\* the retry-exhausted error after exactly maxAttempts sends; no other error of an
\* attempt reaches the caller and no call sends more than maxAttempts times.
C2_ExhaustsAfterMaxAttempts ==
  \A p \in Callers :
    /\ sends[p] <= maxAttempts
    /\ (pc[p] = "panic" \/ (Returned(p) /\ ret[p].err # NoErr /\ ret[p].err # MarshalErr))
         => /\ Returned(p)
            /\ ret[p].err.e = "errExceededRetryLimit"
            /\ sends[p] = maxAttempts

\* C3: with a fixed peer set and one caller, every attempt (the first included)
\* leaves the cursor at (cursor + 1) mod N and is sent to the peer at the cursor;
\* the latest N selections, across calls, are pairwise distinct and the selection
\* made N attempts ago is the one made now.
C3_RoundRobin ==
  LET N == Len(stateSyncNodes)
      L == Len(history) IN
  FixedSet =>
    /\ \A p \in SeqCallers :
         pc[p] = "send" =>
           /\ nodeIdx = (idx[p] + 1) % N
           /\ nodeID[p] = stateSyncNodes[nodeIdx + 1]
           /\ L > 0 /\ history[L] = nodeID[p]
    /\ L >= N => \A i, j \in (L - N + 1)..L : i # j => history[i] # history[j]
    /\ L > N => history[L] = history[L - N]

\* the first attempt of a later call, after more than MaxPeers selections
C3_Witness ==
  /\ Len(stateSyncNodes) = MaxPeers
  /\ Len(history) = MaxPeers + 1
  /\ pc[1] = "send" /\ attempt[1] = 0

\* C6: a validated result exists only in a call that has returned it, which sent
\* one request per attempt up to the accepted one and slept once per earlier
\* attempt (so one send and no sleep when the first response is valid); a call that
\* has returned does nothing but end: no send, no sleep, no cursor advance.
C6_ReturnsOnFirstValid ==
  /\ [](\A p \in Callers :
          ret[p].val # NilVal =>
            /\ Succeeded(p)
            /\ sends[p] = attempt[p] + 1
            /\ sleeps[p] = attempt[p])
  /\ [][\A p \in Callers :
          Returned(p) =>
            /\ nodeIdx' = nodeIdx
            /\ history' = history
            /\ pc'[p] \in {"done", "idle"}
            /\ pc'[p] = "done" => sends'[p] = sends[p] /\ sleeps'[p] = sleeps[p]]_vars

\* the first response of a call is valid and the call has returned it
C6_Witness ==
  \E p \in Callers : Succeeded(p) /\ attempt[p] = 0 /\ sends[p] = 1 /\ sleeps[p] = 0

\* C7: when encoding fails get returns the encoding error at once: nothing was
\* sent, nothing slept, the cursor was not touched.
C7_EncodingErrorIsFatal ==
  /\ [](\A p \in Callers :
          err[p] = MarshalErr =>
            /\ Returned(p)
            /\ ret[p] = [val |-> NilVal, err |-> MarshalErr]
            /\ sends[p] = 0 /\ sleeps[p] = 0 /\ wrote[p] = -1)
  /\ [][\A p \in Callers :
          (pc[p] = "encode" /\ pc'[p] = "done") =>
            /\ nodeIdx' = nodeIdx
            /\ ret'[p].err = MarshalErr]_vars

\* a call ends on an encoding error after earlier calls moved the cursor
C7_Witness ==
  \E p \in Callers : Returned(p) /\ ret[p].err = MarshalErr /\ nodeIdx # 0

(***************************************************************************)
(* Properties of the shared cursor, two concurrent callers (SpecConc).     *)
(***************************************************************************)
\* C4: the cursor's read-modify-write and the read of the selected peer are one
\* atomic step: no increment is lost, so the cursor equals the number of attempts
\* that advanced it, modulo N, and each attempt is sent to the peer at the index
\* that this attempt wrote.
C4_CursorSerialized ==
  FixedSet =>
    /\ nodeIdx = advances
    /\ \A p \in Callers : pc[p] = "send" => nodeID[p] = stateSyncNodes[wrote[p] + 1]

\* C5: with N >= 2 peers every retry of a call goes to another peer than the
\* call's preceding attempt, whatever other calls do in between.
C5_RetryChangesPeer ==
  Len(stateSyncNodes) >= 2 =>
    \A p \in Callers : (pc[p] = "send" /\ attempt[p] > 0) => nodeID[p] # prevNode[p]

\* C5, amended: with N >= 2 peers every retry of a call goes to another peer than
\* the call's preceding attempt, in every execution in which no other call writes
\* the cursor between the preceding attempt's read of its peer (line 294) and the
\* retry's.
C5_RetryChangesPeerUndisturbed ==
  [][Len(stateSyncNodes) >= 2 =>
       \A p \in Callers :
         (pc[p] = "index" /\ pc'[p] = "send" /\ attempt[p] > 0 /\ ~interf[p])
           => nodeID'[p] # prevNode[p]]_vars

\* a retry is about to read its peer while another call is in progress that has
\* not written the cursor since the preceding attempt read its peer
C5_Witness ==
  /\ Len(stateSyncNodes) >= 2
  /\ \E p, q \in Callers :
       /\ p # q
       /\ pc[p] = "index" /\ attempt[p] > 0 /\ ~interf[p]
       /\ pc[q] \in {"select", "write", "send"}

(***************************************************************************)
(* Properties of the leaf validator, one caller (SpecLeafs).               *)
(***************************************************************************)
LeafsReturned(p) == Succeeded(p) /\ request[p].kind = "leafs"
Sending(p) == pc[p] = "send" /\ request[p].kind = "leafs"

\* C8: no leafs response returned as success has more keys or more values than the
\* request's Limit; every response that has is rejected with errTooManyLeaves, which
\* makes the attempt fail and the loop go on.
C8_NeverMoreThanLimit ==
  \A p \in Callers :
    /\ LeafsReturned(p) =>
         /\ Len(ret[p].val.Keys) <= request[p].Limit
         /\ Len(ret[p].val.Vals) <= request[p].Limit
         /\ Len(response[p].body.Keys) <= request[p].Limit
         /\ Len(response[p].body.Vals) <= request[p].Limit
    /\ Sending(p) =>
         \A d \in LeafWire :
           (Len(d.body.Keys) > request[p].Limit \/ Len(d.body.Vals) > request[p].Limit)
             => parseFn(request[p], d).err = [e |-> "errTooManyLeaves"]
    /\ err[p] = [e |-> "errTooManyLeaves"] => ~Succeeded(p) /\ attempt[p] > 0

\* an oversized response made the first attempt fail and the second is due
C8_Witness ==
  \E p \in Callers :
    pc[p] = "loop" /\ err[p] = [e |-> "errTooManyLeaves"] /\ attempt[p] = 1
      /\ attempt[p] < maxAttempts

\* C9: in every leafs response returned as success the first and the last key lie
\* within the request's Start and End bounds.
C9_KeysWithinRequestedRange ==
  \A p \in Callers :
    (LeafsReturned(p) /\ Len(ret[p].val.Keys) > 0 /\ Len(request[p].End) > 0) =>
      LET keys == ret[p].val.Keys IN
      /\ Compare(request[p].Start, keys[1]) <= 0
      /\ Compare(keys[Len(keys)], request[p].End) <= 0

C11_ProofKeysPairWithProofVals ==
  \A p \in Callers :
    LeafsReturned(p) =>
      /\ Len(ret[p].val.ProofKeys) = Len(ret[p].val.ProofVals)
      /\ Len(response[p].body.ProofKeys) = Len(response[p].body.ProofVals)

EmptyKeyErr == [e |-> "empty key response must include merkle proof"]

\* C12: a leafs response with no keys and no proof keys is never returned as
\* success, whatever the request and whatever the verifier would answer: the
\* validator rejects it before it reaches the verifier, with the error of the
\* limit check or of the empty-response check.
C12_EmptyWithoutProofRejected ==
  \A p \in Callers :
    /\ LeafsReturned(p) =>
         ~(Len(response[p].body.Keys) = 0 /\ Len(response[p].body.ProofKeys) = 0)
    /\ Sending(p) =>
         \A d \in LeafWire :
           (Len(d.body.Keys) = 0 /\ Len(d.body.ProofKeys) = 0) =>
             parseFn(request[p], d).err \in {EmptyKeyErr, [e |-> "errTooManyLeaves"]}
    /\ err[p] = EmptyKeyErr => ~Succeeded(p) /\ attempt[p] > 0

\* an attempt failed on the empty-response check for a request whose empty
\* response the verifier would have accepted without a proof
C12_Witness ==
  \E p \in Callers :
    /\ pc[p] = "loop" /\ err[p] = EmptyKeyErr /\ request[p].kind = "leafs"
    /\ VerifyRangeProof(request[p].Root, firstKeyOf(request[p]), request[p].End,
                        <<>>, <<>>, NilProof).ok

\* C18: the bounds handed to the range-proof verifier are: as first key the
\* request's Start when it has bytes and, when Start is nil or empty, the all-zero
\* key as long as End; as last key the last of the response's keys when it has
\* keys and the request's End when it has none.
C18_VerifierBounds ==
  \A p \in Callers :
    Sending(p) =>
      LET req == request[p] IN
      /\ firstKeyOf(req) = IF Len(req.Start) > 0 THEN req.Start ELSE Repeat0(Len(req.End))
      /\ \A d \in LeafWire :
           /\ Len(d.body.Keys) > 0 => lastKeyOf(req, d.body) = d.body.Keys[Len(d.body.Keys)]
           /\ Len(d.body.Keys) = 0 => lastKeyOf(req, d.body) = req.End

(***************************************************************************)
(* Properties of the block validator, one caller (SpecBlocks).             *)
(***************************************************************************)
BlocksReturned(p) == Succeeded(p) /\ request[p].kind = "blocks"
SendingBlocks(p) == pc[p] = "send" /\ request[p].kind = "blocks"

\* the hash block i of the payload must have: the requested hash for the first
\* block, the parent hash of the block before for the others
ExpectedHash(req, raw, i) == IF i = 1 THEN req.Hash ELSE ParentHash(raw[i - 1].block)

\* some block of the payload decodes, as do the blocks before it, and has not the
\* hash expected at its position
LinkBroken(req, raw) ==
  \E i \in 1..Len(raw) :
    /\ \A j \in 1..i : raw[j].rlp
    /\ BlockHash(raw[i].block) # ExpectedHash(req, raw, i)

\* C13: the blocks GetBlocks returns are the blocks of the accepted payload in the
\* order received; the first has the requested hash and each further one has the
\* hash that is the parent hash of the block before it.  A payload with a broken
\* link at any position is rejected with errHashMismatch, which makes the attempt
\* fail and the loop go on.
C13_HashLinkedChain ==
  \A p \in Callers :
    /\ BlocksReturned(p) =>
         LET blocks == Facade(request[p], ret[p]).val
             raw == response[p].body.Blocks IN
         /\ Len(blocks) = Len(raw)
         /\ \A i \in 1..Len(raw) : raw[i].rlp /\ blocks[i] = raw[i].block
         /\ BlockHash(blocks[1]) = request[p].Hash
         /\ \A i \in 1..(Len(blocks) - 1) : BlockHash(blocks[i + 1]) = ParentHash(blocks[i])
    /\ SendingBlocks(p) =>
         \A d \in BlockWire :
           LinkBroken(request[p], d.body.Blocks) => parseFn(request[p], d).err # NoErr
    /\ err[p].e = "errHashMismatch" => ~Succeeded(p) /\ attempt[p] > 0

\* the first attempt failed on a payload whose first block has the requested hash
\* and whose second block breaks the link; the second attempt is due
C13_Witness ==
  \E p \in Callers :
    /\ pc[p] = "loop" /\ request[p].kind = "blocks" /\ attempt[p] = 1
    /\ attempt[p] < maxAttempts
    /\ err[p].e = "errHashMismatch" /\ err[p].expected # request[p].Hash

CodeReturned(p) == Succeeded(p) /\ request[p].kind = "code"

\* C15: the bytes GetCode returns are the bytes of the accepted payload, are not
\* empty and hash to the requested hash.  A payload whose bytes hash to anything
\* else is rejected whenever it is received, so the attempt fails; a call whose
\* last attempt failed that way does not succeed, and returns only the
\* retry-exhausted error wrapping the mismatch, after maxAttempts sends.
C15_CodeMatchesHash ==
  \A p \in Callers :
    /\ CodeReturned(p) =>
         LET code == Facade(request[p], ret[p]).val IN
         /\ code = response[p].body.Data
         /\ Len(code) > 0
         /\ Keccak256Hash(code) = request[p].Hash
    /\ (pc[p] = "send" /\ request[p].kind = "code") =>
         \A d \in CodeWire :
           Keccak256Hash(d.body.Data) # request[p].Hash =>
             parseFn(request[p], d).err.e \in {"errEmptyResponse", "errHashMismatch"}
    /\ err[p].e = "errHashMismatch" =>
         /\ ~Succeeded(p)
         /\ attempt[p] > 0
         /\ Returned(p) =>
              /\ ret[p].err.e = "errExceededRetryLimit"
              /\ ret[p].err.wrapped = err[p]
              /\ sends[p] = maxAttempts
              /\ Facade(request[p], ret[p]).val = NilVal

\* every attempt allowed was made and the last one failed on bytes of another
\* hash: the call has returned the retry-exhausted error
C15_Witness ==
  \E p \in Callers :
    /\ Returned(p) /\ request[p].kind = "code"
    /\ ret[p].err.e = "errExceededRetryLimit"
    /\ ret[p].err.wrapped.e = "errHashMismatch"
    /\ sends[p] = MaxAttemptsBound

(***************************************************************************)
(* Properties of the loop's end, two concurrent callers (SpecConc).        *)
(***************************************************************************)
ExhaustedReturn(p) == Returned(p) /\ ret[p].err.e = "errExceededRetryLimit"

\* the errors an attempt of the call can fail with
AttemptErrs(p) ==
  TransportErrs \cup ({parseFn(request[p], d).err : d \in CodeWire \cup {Garbage}} \ {NoErr})

\* C16: the retry-exhausted error get returns wraps, whatever maxAttempts is, the
\* transport or validator error of the last attempt this call made.
C16_WrapsLastError ==
  \A p \in Callers :
    ExhaustedReturn(p) =>
      /\ sends[p] >= 1
      /\ ret[p].err.wrapped \in AttemptErrs(p)
      /\ ret[p].err.wrapped = err[p]

\* C16, amended: with maxAttempts >= 1 the retry-exhausted error get returns wraps
\* the transport or validator error of the last attempt this call made: every
\* failed attempt stores its own error in the call's err, nothing else (no sleep,
\* no peer selection, no step of another call) changes it until the call returns,
\* and the loop's exit wraps it.
C16_WrapsLastErrorOfAttempt ==
  /\ [](maxAttempts >= 1 =>
          \A p \in Callers :
            ExhaustedReturn(p) =>
              /\ sends[p] = maxAttempts
              /\ ret[p].err.wrapped \in AttemptErrs(p)
              /\ ret[p].err.wrapped = err[p])
  /\ [][maxAttempts >= 1 =>
          \A p \in Callers :
            /\ (pc[p] = "send" /\ pc'[p] = "loop") => err'[p] \in AttemptErrs(p)
            /\ pc[p] \in {"loop", "select", "write", "index"} => err'[p] = err[p]
            /\ (pc[p] = "send" /\ pc'[p] = "send") => err'[p] = err[p]
            /\ (pc[p] = "loop" /\ pc'[p] = "done") => ret'[p].err.wrapped = err[p]]_vars

\* a call returns the retry-exhausted error wrapping the validator's error of its
\* second attempt, its first attempt having met a transport error, while another
\* call is between two attempts holding an error of its own
C16_Witness ==
  \E p, q \in Callers :
    /\ p # q
    /\ ExhaustedReturn(p) /\ sends[p] = 2
    /\ ret[p].err.wrapped = [e |-> "codec"]
    /\ pc[q] = "loop" /\ err[q] \in TransportErrs

(***************************************************************************)
(* Properties of the backoff, one caller (Spec).                           *)
(***************************************************************************)
\* C17: within a call a sleep precedes every attempt but the first and happens
\* nowhere else: an attempt under way is the (sleeps + 1)-th, between two attempts
\* one sleep fewer than attempts made has happened, a returned call slept once
\* less than it sent (maxAttempts - 1 times when it exhausted maxAttempts >= 1
\* attempts); every sleep lasted 0 <= d < maxRetryDelay, and for every configured
\* maxRetryDelay the backoff gets to its sleep.
C17_SleepBeforeEveryRetry ==
  \A p \in Callers :
    /\ pc[p] # "panic"
    /\ pc[p] \in {"select", "write", "index", "send"} =>
         sleeps[p] = attempt[p] /\ sends[p] = attempt[p]
    /\ pc[p] = "loop" =>
         /\ sends[p] = attempt[p]
         /\ sleeps[p] = IF attempt[p] = 0 THEN 0 ELSE attempt[p] - 1
    /\ Succeeded(p) => sleeps[p] = sends[p] - 1
    /\ (ExhaustedReturn(p) /\ maxAttempts >= 1) =>
         sends[p] = maxAttempts /\ sleeps[p] = maxAttempts - 1
    /\ sleeps[p] > 0 => (0 <= lastDelay[p] /\ lastDelay[p] < maxRetryDelay)

(***************************************************************************)
(* Termination and the cursor's range, two concurrent callers (SpecConc).  *)
(***************************************************************************)
InProgress(p) == pc[p] \notin {"idle", "done"}

\* C19: every call terminates: the attempt counter only grows up to maxAttempts,
\* no call sends more than maxAttempts times, and a call that has not returned
\* can always take its next step (sends and sleeps end), whatever other calls do.
C19_EveryCallTerminates ==
  \A p \in Callers :
    /\ attempt[p] <= maxAttempts
    /\ sends[p] <= maxAttempts
    /\ InProgress(p) => ENABLED Step(p, CodeRequests, ConcWire, 0)

SetMembers == {stateSyncNodes[i] : i \in 1..Len(stateSyncNodes)}

\* C20: with a fixed peer set of N peers the cursor is within 0..N-1 in every
\* state, the index read at line 294 is within the set, and every request is
\* sent to a peer of the set.  With no peer set the cursor is never written: it
\* keeps its initial value, no call passes through lines 293-294, and every
\* request leaves through RequestAny, get holding no peer of its own choice.
C20_CursorInRange ==
  /\ [](FixedSet =>
          /\ nodeIdx \in 0..(Len(stateSyncNodes) - 1)
          /\ \A p \in Callers :
               /\ pc[p] = "index" => (nodeIdx + 1) \in DOMAIN stateSyncNodes
               /\ pc[p] = "send" => nodeID[p] \in SetMembers)
  /\ [](~FixedSet =>
          /\ nodeIdx = 0 /\ advances = 0
          /\ \A p \in Callers :
               /\ pc[p] \notin {"write", "index"}
               /\ wrote[p] = -1
               /\ pc[p] = "send" => nodeID[p] = ZeroID)
  /\ [][~FixedSet => nodeIdx' = nodeIdx]_vars
  /\ [][FixedSet =>
          \A p \in Callers :
            sends'[p] = sends[p] + 1 => (pc[p] = "send" /\ nodeID[p] \in SetMembers)]_vars

\* two concurrent calls have both read the cursor at its highest value and one of
\* them has written it back wrapped to 0; the other has still to write
C20_Witness ==
  /\ Len(stateSyncNodes) = MaxPeers
  /\ \E p, q \in Callers :
       /\ p # q
       /\ pc[p] = "write" /\ idx[p] = MaxPeers - 1
       /\ pc[q] = "index" /\ idx[q] = MaxPeers - 1 /\ nodeIdx = 0
====
